---- MODULE Spec2Model ----
(***************************************************************************)
(* Model of bcdi/experiment/detector.py: the detector factory, the         *)
(* validated configuration of a Detector, and the correction pipeline      *)
(* mask_detector (linearity, flatfield, background, hot pixels, gaps,      *)
(* saturation) of the six detector classes.                                *)
(*                                                                         *)
(* A numpy array is modelled by its shape, its dtype and its values at a   *)
(* set px of tracked pixel coordinates.  Every array operation of the      *)
(* module is pointwise (or a test on the shape), so the value the code     *)
(* computes at a tracked pixel is the value computed here, whatever the    *)
(* other pixels hold; px ranges over the pixels on both sides of every     *)
(* literal slice boundary of the gap tables.                               *)
(***************************************************************************)
EXTENDS Integers, Sequences, FiniteSets, TLC

VARIABLES
    det,    \* the Detector instance, or NoDet
    px,     \* the tracked pixel coordinates <<y, x>> of the caller's frame
    data,   \* the caller's data array (the object passed to mask_detector)
    mask,   \* the caller's mask array (the running mask)
    args,   \* the other arguments of the last call
    steps,  \* the locals (data, mask) of mask_detector after each of its steps
    ret,    \* outcome of the last operation
    pc,     \* "idle": between calls, "done": an operation has just ended
    nassign \* number of attribute assignments made on det since its construction

vars == <<det, px, data, mask, args, steps, ret, pc, nassign>>

\* Python values carry their type: None, str (a sequence of characters), int,
\* float, tuple, list, function
None == [t |-> "NoneType"]
PyStr(s) == [t |-> "str", v |-> s]
PyInt(n) == [t |-> "int", v |-> n]
PyFloat(n) == [t |-> "float", v |-> n]
PyTuple(items) == [t |-> "tuple", v |-> items]
PyList(items) == [t |-> "list", v |-> items]
PyFunc(f) == [t |-> "function", v |-> f]
\* an attribute that has not been assigned yet
Unset == [t |-> "unset"]
NoDet == [nodet |-> TRUE]
NoArr == [noarr |-> TRUE]

Min(a, b) == IF a < b THEN a ELSE b
Max(a, b) == IF a > b THEN a ELSE b

----------------------------------------------------------------------------
(* Pixel values.  A count is the exact integer hi * Base + lo with         *)
(* 0 <= lo < Base, so that 4000000000 (Eiger4M) and the values around it   *)
(* are represented without overflow.                                       *)

Base == 10^6

Val(hi, lo) == [hi |-> hi, lo |-> lo]
Norm(hi, lo) == Val(hi + (lo \div Base), lo % Base)
FromInt(n) == Norm(0, n)
Zero == Val(0, 0)

\* a > b
Gt(a, b) == a.hi > b.hi \/ (a.hi = b.hi /\ a.lo > b.lo)
\* a * k for a small integer k
Scale(a, k) == Norm(a.hi * k, a.lo * k)
\* a - b
Sub(a, b) == Norm(a.hi - b.hi, a.lo - b.lo)
\* a + b
Add(a, b) == Norm(a.hi + b.hi, a.lo + b.lo)

----------------------------------------------------------------------------
(* Arrays *)

Arr(shape, dtype, val) == [shape |-> shape, dtype |-> dtype, val |-> val]

\* the tracked pixels that lie inside a 2D array of this shape
Inside(P, shape) == {p \in P : p[1] < shape[1] /\ p[2] < shape[2]}

\* numpy type promotion of the two dtypes the model knows
Promote(a, b) == IF a = "float" \/ b = "float" THEN "float" ELSE "int"

\* data.astype(float): a new array of the same values, dtype float
AsFloat(a) == Arr(a.shape, "float", a.val)

\* data.flatten(): the 1D array of length ny * nx in row-major order
Flatten(a) ==
    LET nx == a.shape[2]
        idx == {p[1] * nx + p[2] : p \in DOMAIN a.val}
    IN Arr(<<a.shape[1] * a.shape[2]>>, a.dtype,
           [i \in idx |-> a.val[<<i \div nx, i % nx>>]])

\* a.reshape((nby, nbx)) of a 1D array a of length nby * nbx
Reshape(a, nby, nbx) ==
    LET P == {<<i \div nbx, i % nbx>> : i \in DOMAIN a.val}
    IN Arr(<<nby, nbx>>, a.dtype, [p \in P |-> a.val[p[1] * nbx + p[2]]])

----------------------------------------------------------------------------
(* numpy basic indexing: a[rows, cols] = v with rows/cols a slice or an    *)
(* integer index.                                                          *)

Sl(lo, hi) == [k |-> "sl", a |-> lo, b |-> hi]     \* lo:hi
All == [k |-> "all", a |-> 0, b |-> 0]             \* :
From(lo) == [k |-> "from", a |-> lo, b |-> 0]      \* lo:
UpTo(hi) == [k |-> "upto", a |-> 0, b |-> hi]      \* :hi
Idx(i) == [k |-> "idx", a |-> i, b |-> 0]          \* i

\* a slice bound resolved against an axis of length n
Clip(i, n) == IF i < 0 THEN Max(i + n, 0) ELSE Min(i, n)

\* an integer index outside [-n, n) raises IndexError
IndexError(s, n) == s.k = "idx" /\ (s.a >= n \/ s.a < 0 - n)

\* whether index i of an axis of length n is selected by s
Selects(s, n, i) ==
    IF s.k = "idx"
    THEN i = (IF s.a < 0 THEN s.a + n ELSE s.a)
    ELSE LET lo == IF s.k \in {"all", "upto"} THEN 0 ELSE Clip(s.a, n)
             hi == IF s.k \in {"all", "from"} THEN n ELSE Clip(s.b, n)
         IN lo <= i /\ i < hi

\* one assignment statement  target[rows, cols] = v
Stmt(target, rows, cols, v) ==
    [target |-> target, rows |-> rows, cols |-> cols, v |-> v]

\* the statement with  mask[...] += v  in place of  mask[...] = v
ApplyStmt_accumulate(s, st) ==
    LET a == IF s.target = "data" THEN st.data ELSE st.mask
        ny == a.shape[1]
        nx == a.shape[2]
        hit(p) == Selects(s.rows, ny, p[1]) /\ Selects(s.cols, nx, p[2])
    IN IF IndexError(s.rows, ny) \/ IndexError(s.cols, nx)
       THEN [st EXCEPT !.err = "IndexError"]
       ELSE IF s.target = "data"
            THEN [st EXCEPT !.data.val =
                     [p \in DOMAIN a.val |-> IF hit(p) THEN FromInt(s.v) ELSE a.val[p]]]
            ELSE [st EXCEPT !.mask.val =
                     [p \in DOMAIN a.val |-> IF hit(p) THEN a.val[p] + s.v ELSE a.val[p]]]

\* the statement applied to the pair (data, mask); an out-of-range integer
\* index raises IndexError and leaves both arrays as they are
ApplyStmt(s, st) ==
    LET a == IF s.target = "data" THEN st.data ELSE st.mask
        ny == a.shape[1]
        nx == a.shape[2]
        hit(p) == Selects(s.rows, ny, p[1]) /\ Selects(s.cols, nx, p[2])
    IN IF IndexError(s.rows, ny) \/ IndexError(s.cols, nx)
       THEN [st EXCEPT !.err = "IndexError"]
       ELSE IF s.target = "data"
            THEN [st EXCEPT !.data.val =
                     [p \in DOMAIN a.val |-> IF hit(p) THEN FromInt(s.v) ELSE a.val[p]]]
            ELSE [st EXCEPT !.mask.val =
                     [p \in DOMAIN a.val |-> IF hit(p) THEN s.v ELSE a.val[p]]]

\* the statements in program order, up to the first one that raises
RECURSIVE ApplyStmts(_, _, _)
ApplyStmts(stmts, i, st) ==
    IF i > Len(stmts) \/ st.err # "none"
    THEN st
    ELSE ApplyStmts(stmts, i + 1, ApplyStmt(stmts[i], st))

----------------------------------------------------------------------------
(* The detector classes *)

Classes == {"Maxipix", "Eiger2M", "Eiger4M", "Timepix", "Merlin", "Dummy"}

\* the gap table of Maxipix with bands that include index 261
MaxipixGaps_wide == <<
    Stmt("data", All, Sl(255, 262), 0),
    Stmt("data", Sl(255, 262), All, 0),
    Stmt("mask", All, Sl(255, 262), 1),
    Stmt("mask", Sl(255, 262), All, 1) >>

\* Maxipix._mask_gaps
MaxipixGaps == <<
    Stmt("data", All, Sl(255, 261), 0),
    Stmt("data", Sl(255, 261), All, 0),
    Stmt("mask", All, Sl(255, 261), 1),
    Stmt("mask", Sl(255, 261), All, 1) >>

\* Eiger2M._mask_gaps
Eiger2MGaps == <<
    Stmt("data", All, Sl(255, 259), 0),
    Stmt("data", All, Sl(513, 517), 0),
    Stmt("data", All, Sl(771, 775), 0),
    Stmt("data", Sl(0, 257), Sl(72, 80), 0),
    Stmt("data", Sl(255, 259), All, 0),
    Stmt("data", Sl(511, 552), UpTo(0), 0),
    Stmt("data", Sl(804, 809), All, 0),
    Stmt("data", Sl(1061, 1102), All, 0),
    Stmt("data", Sl(1355, 1359), All, 0),
    Stmt("data", Sl(1611, 1652), All, 0),
    Stmt("data", Sl(1905, 1909), All, 0),
    Stmt("data", Sl(1248, 1290), Idx(478), 0),
    Stmt("data", Sl(1214, 1298), Idx(481), 0),
    Stmt("data", Sl(1649, 1910), Sl(620, 628), 0),
    Stmt("mask", All, Sl(255, 259), 1),
    Stmt("mask", All, Sl(513, 517), 1),
    Stmt("mask", All, Sl(771, 775), 1),
    Stmt("mask", Sl(0, 257), Sl(72, 80), 1),
    Stmt("mask", Sl(255, 259), All, 1),
    Stmt("mask", Sl(511, 552), All, 1),
    Stmt("mask", Sl(804, 809), All, 1),
    Stmt("mask", Sl(1061, 1102), All, 1),
    Stmt("mask", Sl(1355, 1359), All, 1),
    Stmt("mask", Sl(1611, 1652), All, 1),
    Stmt("mask", Sl(1905, 1909), All, 1),
    Stmt("mask", Sl(1248, 1290), Idx(478), 1),
    Stmt("mask", Sl(1214, 1298), Idx(481), 1),
    Stmt("mask", Sl(1649, 1910), Sl(620, 628), 1) >>

\* Eiger4M._mask_gaps
Eiger4MGaps == <<
    Stmt("data", All, Sl(0, 1), 0),
    Stmt("data", All, From(-1), 0),
    Stmt("data", Sl(0, 1), All, 0),
    Stmt("data", From(-1), All, 0),
    Stmt("data", All, Sl(1029, 1041), 0),
    Stmt("data", Sl(513, 552), All, 0),
    Stmt("data", Sl(1064, 1103), All, 0),
    Stmt("data", Sl(1615, 1654), All, 0),
    Stmt("mask", All, Sl(0, 1), 1),
    Stmt("mask", All, From(-1), 1),
    Stmt("mask", Sl(0, 1), All, 1),
    Stmt("mask", From(-1), All, 1),
    Stmt("mask", All, Sl(1029, 1041), 1),
    Stmt("mask", Sl(513, 552), All, 1),
    Stmt("mask", Sl(1064, 1103), All, 1),
    Stmt("mask", Sl(1615, 1654), All, 1) >>

\* Merlin._mask_gaps
MerlinGaps == <<
    Stmt("data", All, Sl(255, 260), 0),
    Stmt("data", Sl(255, 260), All, 0),
    Stmt("mask", All, Sl(255, 260), 1),
    Stmt("mask", Sl(255, 260), All, 1) >>

\* the assignments of the class's _mask_gaps; Timepix and Dummy inherit
\* Detector._mask_gaps, which has none
GapStmts(cls) ==
    CASE cls = "Maxipix" -> MaxipixGaps
      [] cls = "Eiger2M" -> Eiger2MGaps
      [] cls = "Eiger4M" -> Eiger4MGaps
      [] cls = "Merlin" -> MerlinGaps
      [] OTHER -> << >>

\* cls._mask_gaps(data, mask): both arrays are written in place
mask_gaps(cls, d, m) ==
    ApplyStmts(GapStmts(cls), 1, [err |-> "none", data |-> d, mask |-> m])

\* a threshold of 1e6 given to the classes that define none
SaturationThreshold_all(cls) ==
    CASE cls = "Eiger4M" -> Val(4000, 0)
      [] OTHER -> Val(1, 0)

\* self.saturation_threshold as set by the class's __init__ (None: not set)
SaturationThreshold(cls) ==
    CASE cls \in {"Maxipix", "Eiger2M", "Merlin"} -> Val(1, 0)
      [] cls = "Eiger4M" -> Val(4000, 0)
      [] OTHER -> None

----------------------------------------------------------------------------
(* bcdi.utils.validation *)

\* len(obj) of a str, tuple or list
PyLen(obj) == Len(obj.v)

\* Python truthiness: None, 0, "", () and [] are falsy
Falsy(obj) ==
    CASE obj.t = "NoneType" -> TRUE
      [] obj.t \in {"int", "float"} -> obj.v = 0
      [] obj.t \in {"str", "tuple", "list"} -> PyLen(obj) = 0
      [] OTHER -> FALSE

\* valid.valid_item(value, allowed_types=, min_excluded=, allow_none=)
\* allowed_types: a set of type names; min_excluded: None or a PyInt
valid_item(value, allowed_types, min_excluded, allow_none) ==
    IF value.t = "NoneType"
    THEN IF allow_none THEN "none" ELSE "ValidationError"
    ELSE IF value.t \notin allowed_types
         THEN "ValidationError"
         ELSE IF min_excluded # None /\ value.v <= min_excluded.v
              THEN "ValidationError"
              ELSE "none"

\* valid.valid_container(obj, container_types=, length=, min_length=,
\* item_types=, min_excluded=, allow_none=); an option left out is None
valid_container(obj, container_types, length, min_length, item_types, min_excluded, allow_none) ==
    IF obj.t = "NoneType"
    THEN IF allow_none THEN "none" ELSE "ValidationError"
    ELSE IF obj.t \notin container_types
         THEN "ValidationError"
         ELSE IF length # None /\ PyLen(obj) # length.v
              THEN "ValidationError"
              ELSE IF min_length # None /\ PyLen(obj) < min_length.v
                   THEN "ValidationError"
                   ELSE IF /\ item_types # {}
                           /\ obj.t # "str"
                           /\ \E i \in 1..Len(obj.v) :
                                valid_item(obj.v[i], item_types, min_excluded, FALSE) # "none"
                        THEN "ValidationError"
                        ELSE "none"

----------------------------------------------------------------------------
(* Detector: configuration *)

\* the outcome of a setter or constructor: the exception raised ("none": it
\* returned) and the object as the statement left it
Out(err, obj) == [err |-> err, obj |-> obj]

\* run F on the object unless an exception is already propagating
Then(r, F(_)) == IF r.err # "none" THEN r ELSE F(r.obj)

\* the instance before __init__ has assigned anything
Blank(cls) ==
    [cls |-> cls, name |-> Unset,
     custom_pixelsize |-> Unset, custom_pixelnumber |-> Unset,
     preprocessing_binning |-> Unset, offsets |-> Unset,
     linearity_func |-> Unset, binning |-> Unset, roi |-> Unset,
     sum_roi |-> Unset, rootdir |-> Unset, datadir |-> Unset,
     savedir |-> Unset, sample_name |-> Unset, template_file |-> Unset,
     template_imagefile |-> Unset, specfile |-> Unset,
     saturation_threshold |-> Unset]

\* unbinned_pixel_number with Dummy's override ignored
unbinned_pixel_number_fixed(self) ==
    CASE self.cls = "Maxipix" -> <<516, 516>>
      [] self.cls = "Eiger2M" -> <<2164, 1030>>
      [] self.cls = "Eiger4M" -> <<2167, 2070>>
      [] self.cls = "Timepix" -> <<256, 256>>
      [] self.cls = "Merlin" -> <<515, 515>>
      [] self.cls = "Dummy" -> <<516, 516>>

\* unbinned_pixel_number of each class, (vertical, horizontal)
unbinned_pixel_number(self) ==
    CASE self.cls = "Maxipix" -> <<516, 516>>
      [] self.cls = "Eiger2M" -> <<2164, 1030>>
      [] self.cls = "Eiger4M" -> <<2167, 2070>>
      [] self.cls = "Timepix" -> <<256, 256>>
      [] self.cls = "Merlin" -> <<515, 515>>
      [] self.cls = "Dummy" ->
           IF /\ self.custom_pixelnumber # None
              /\ \A i \in 1..Len(self.custom_pixelnumber.v) :
                    self.custom_pixelnumber.v[i] # None
           THEN <<self.custom_pixelnumber.v[1].v, self.custom_pixelnumber.v[2].v>>
           ELSE <<516, 516>>

nb_pixel_x(self) ==
    unbinned_pixel_number(self)[2] \div self.preprocessing_binning.v[3].v

nb_pixel_y(self) ==
    unbinned_pixel_number(self)[1] \div self.preprocessing_binning.v[2].v

\* unbinned_pixel_size of each class, (vertical, horizontal), in units of
\* 1e-06 m: 55e-06 is 55; Dummy returns its custom_pixelsize twice when set
unbinned_pixel_size(self) ==
    CASE self.cls \in {"Maxipix", "Timepix", "Merlin"} -> <<55, 55>>
      [] self.cls \in {"Eiger2M", "Eiger4M"} -> <<75, 75>>
      [] self.cls = "Dummy" ->
           IF self.custom_pixelsize # None
           THEN <<self.custom_pixelsize.v, self.custom_pixelsize.v>>
           ELSE <<55, 55>>

pixelsize_x(self) ==
    unbinned_pixel_size(self)[2] * self.preprocessing_binning.v[3].v
        * self.binning.v[3].v

\* pixelsize_y reading the stacking element of binning
pixelsize_y_stacking(self) ==
    unbinned_pixel_size(self)[1] * self.preprocessing_binning.v[2].v
        * self.binning.v[1].v

pixelsize_y(self) ==
    unbinned_pixel_size(self)[1] * self.preprocessing_binning.v[2].v
        * self.binning.v[2].v

\* binning.setter
set_binning(self, value) ==
    LET e == valid_container(value, {"tuple", "list"}, PyInt(3), None,
                             {"int"}, PyInt(0), FALSE)
    IN IF e # "none" THEN Out(e, self)
       ELSE Out("none", [self EXCEPT !.binning = value])

\* the setter of preprocessing_binning recomputing roi from the new pixel
\* counts
set_preprocessing_binning_refresh(self, value) ==
    LET e == valid_container(value, {"tuple", "list"}, PyInt(3), None,
                             {"int"}, PyInt(0), FALSE)
        o == [self EXCEPT !.preprocessing_binning = value]
    IN IF e # "none" THEN Out(e, self)
       ELSE IF self.roi = Unset THEN Out("none", o)
            ELSE Out("none", [o EXCEPT !.roi =
                     PyList(<<PyInt(0), PyInt(nb_pixel_y(o)),
                              PyInt(0), PyInt(nb_pixel_x(o))>>)])

\* preprocessing_binning.setter
set_preprocessing_binning(self, value) ==
    LET e == valid_container(value, {"tuple", "list"}, PyInt(3), None,
                             {"int"}, PyInt(0), FALSE)
    IN IF e # "none" THEN Out(e, self)
       ELSE Out("none", [self EXCEPT !.preprocessing_binning = value])

\* the setter of roi storing the value before it validates it
set_roi_store_first(self, value) ==
    LET v == IF Falsy(value)
             THEN PyList(<<PyInt(0), PyInt(nb_pixel_y(self)),
                           PyInt(0), PyInt(nb_pixel_x(self))>>)
             ELSE value
        e == valid_container(v, {"tuple", "list"}, PyInt(4), None,
                             {"int"}, None, FALSE)
    IN Out(e, [self EXCEPT !.roi = v])

\* the setter of roi defaulting to the frame before preprocessing binning
set_roi_unbinned(self, value) ==
    LET v == IF Falsy(value)
             THEN PyList(<<PyInt(0), PyInt(unbinned_pixel_number(self)[1]),
                           PyInt(0), PyInt(unbinned_pixel_number(self)[2])>>)
             ELSE value
        e == valid_container(v, {"tuple", "list"}, PyInt(4), None,
                             {"int"}, None, FALSE)
    IN IF e # "none" THEN Out(e, self)
       ELSE Out("none", [self EXCEPT !.roi = v])

\* roi.setter
set_roi(self, value) ==
    LET v == IF Falsy(value)
             THEN PyList(<<PyInt(0), PyInt(nb_pixel_y(self)),
                           PyInt(0), PyInt(nb_pixel_x(self))>>)
             ELSE value
        e == valid_container(v, {"tuple", "list"}, PyInt(4), None,
                             {"int"}, None, FALSE)
    IN IF e # "none" THEN Out(e, self)
       ELSE Out("none", [self EXCEPT !.roi = v])

\* the setter of sum_roi defaulting to the full frame whatever roi holds
set_sum_roi_fullframe(self, value) ==
    LET v == IF Falsy(value)
             THEN PyList(<<PyInt(0), PyInt(nb_pixel_y(self)),
                           PyInt(0), PyInt(nb_pixel_x(self))>>)
             ELSE value
        e == valid_container(v, {"tuple", "list"}, PyInt(4), None,
                             {"int"}, None, FALSE)
    IN IF e # "none" THEN Out(e, self)
       ELSE Out("none", [self EXCEPT !.sum_roi = v])

\* sum_roi.setter
set_sum_roi(self, value) ==
    LET v == IF Falsy(value)
             THEN IF Falsy(self.roi)
                  THEN PyList(<<PyInt(0), PyInt(nb_pixel_y(self)),
                                PyInt(0), PyInt(nb_pixel_x(self))>>)
                  ELSE self.roi
             ELSE value
        e == valid_container(v, {"tuple", "list"}, PyInt(4), None,
                             {"int"}, None, FALSE)
    IN IF e # "none" THEN Out(e, self)
       ELSE Out("none", [self EXCEPT !.sum_roi = v])

\* rootdir.setter
set_rootdir(self, value) ==
    LET e == valid_container(value, {"str"}, None, PyInt(1), {}, None, TRUE)
    IN IF e # "none" THEN Out(e, self)
       ELSE Out("none", [self EXCEPT !.rootdir = value])

\* the setter of datadir written with min_length=0
set_datadir_min0(self, value) ==
    LET e == valid_container(value, {"str"}, None, PyInt(0), {}, None, TRUE)
    IN IF e # "none" THEN Out(e, self)
       ELSE Out("none", [self EXCEPT !.datadir = value])

\* datadir.setter
set_datadir(self, value) ==
    LET e == valid_container(value, {"str"}, None, PyInt(1), {}, None, TRUE)
    IN IF e # "none" THEN Out(e, self)
       ELSE Out("none", [self EXCEPT !.datadir = value])

\* savedir.setter
set_savedir(self, value) ==
    LET e == valid_container(value, {"str"}, None, PyInt(1), {}, None, TRUE)
    IN IF e # "none" THEN Out(e, self)
       ELSE Out("none", [self EXCEPT !.savedir = value])

\* sample_name.setter
set_sample_name(self, value) ==
    LET e == valid_container(value, {"str"}, None, PyInt(1), {}, None, TRUE)
    IN IF e # "none" THEN Out(e, self)
       ELSE Out("none", [self EXCEPT !.sample_name = value])

\* template_file.setter (min_length=0)
set_template_file(self, value) ==
    LET e == valid_container(value, {"str"}, None, PyInt(0), {}, None, TRUE)
    IN IF e # "none" THEN Out(e, self)
       ELSE Out("none", [self EXCEPT !.template_file = value])

\* template_imagefile.setter (min_length=0)
set_template_imagefile(self, value) ==
    LET e == valid_container(value, {"str"}, None, PyInt(0), {}, None, TRUE)
    IN IF e # "none" THEN Out(e, self)
       ELSE Out("none", [self EXCEPT !.template_imagefile = value])

\* specfile has no property: a plain attribute, stored as given
set_specfile(self, value) == Out("none", [self EXCEPT !.specfile = value])

\* the arguments of a constructor call that are left out
DefaultKw ==
    [rootdir |-> None, datadir |-> None, savedir |-> None,
     template_file |-> None, template_imagefile |-> None, specfile |-> None,
     sample_name |-> None, roi |-> None, sum_roi |-> None,
     binning |-> PyTuple(<<PyInt(1), PyInt(1), PyInt(1)>>),
     preprocessing_binning |-> None, offsets |-> None, linearity_func |-> None,
     custom_pixelsize |-> None, custom_pixelnumber |-> None]

\* Detector.__init__ without the callable test on linearity_func
Detector_init_unchecked(self, name, kw) ==
    LET s1 == Out("none", [self EXCEPT !.name = name])
        s2 == Then(s1, LAMBDA o : set_preprocessing_binning(o,
                  IF Falsy(kw.preprocessing_binning)
                  THEN PyTuple(<<PyInt(1), PyInt(1), PyInt(1)>>)
                  ELSE kw.preprocessing_binning))
        s3 == Then(s2, LAMBDA o : Out("none", [o EXCEPT !.offsets = kw.offsets]))
        s4 == Then(s3, LAMBDA o :
                  Out("none", [o EXCEPT !.linearity_func = kw.linearity_func]))
        s5 == Then(s4, LAMBDA o : set_binning(o, kw.binning))
        s6 == Then(s5, LAMBDA o : set_roi(o, kw.roi))
        s7 == Then(s6, LAMBDA o : set_sum_roi(o, kw.sum_roi))
        s8 == Then(s7, LAMBDA o : set_rootdir(o, kw.rootdir))
        s9 == Then(s8, LAMBDA o : set_datadir(o, kw.datadir))
        s10 == Then(s9, LAMBDA o : set_savedir(o, kw.savedir))
        s11 == Then(s10, LAMBDA o : set_sample_name(o, kw.sample_name))
        s12 == Then(s11, LAMBDA o : set_template_file(o, kw.template_file))
        s13 == Then(s12, LAMBDA o : set_template_imagefile(o, kw.template_imagefile))
        s14 == Then(s13, LAMBDA o : set_specfile(o, kw.specfile))
    IN Then(s14, LAMBDA o : Out("none", [o EXCEPT !.saturation_threshold = None]))

\* Detector.__init__(self, name, ..., **kwargs)
Detector_init(self, name, kw) ==
    LET s1 == Out("none", [self EXCEPT !.name = name])
        s2 == Then(s1, LAMBDA o : set_preprocessing_binning(o,
                  IF Falsy(kw.preprocessing_binning)
                  THEN PyTuple(<<PyInt(1), PyInt(1), PyInt(1)>>)
                  ELSE kw.preprocessing_binning))
        s3 == Then(s2, LAMBDA o : Out("none", [o EXCEPT !.offsets = kw.offsets]))
        s4 == Then(s3, LAMBDA o :
                  IF kw.linearity_func # None /\ kw.linearity_func.t # "function"
                  THEN Out("TypeError", o)
                  ELSE Out("none", [o EXCEPT !.linearity_func = kw.linearity_func]))
        s5 == Then(s4, LAMBDA o : set_binning(o, kw.binning))
        s6 == Then(s5, LAMBDA o : set_roi(o, kw.roi))
        s7 == Then(s6, LAMBDA o : set_sum_roi(o, kw.sum_roi))
        s8 == Then(s7, LAMBDA o : set_rootdir(o, kw.rootdir))
        s9 == Then(s8, LAMBDA o : set_datadir(o, kw.datadir))
        s10 == Then(s9, LAMBDA o : set_savedir(o, kw.savedir))
        s11 == Then(s10, LAMBDA o : set_sample_name(o, kw.sample_name))
        s12 == Then(s11, LAMBDA o : set_template_file(o, kw.template_file))
        s13 == Then(s12, LAMBDA o : set_template_imagefile(o, kw.template_imagefile))
        s14 == Then(s13, LAMBDA o : set_specfile(o, kw.specfile))
    IN Then(s14, LAMBDA o : Out("none", [o EXCEPT !.saturation_threshold = None]))

\* Dummy.__init__: the two overrides are validated before Detector.__init__
Dummy_init(self, name, kw) ==
    LET s1 == Out(valid_item(kw.custom_pixelsize, {"int", "float"}, PyInt(0), TRUE),
                  [self EXCEPT !.custom_pixelsize = kw.custom_pixelsize])
        s2 == Then(s1, LAMBDA o :
                  Out(valid_container(kw.custom_pixelnumber, {"list", "tuple", "ndarray"},
                                      PyInt(2), None, {"int"}, PyInt(0), TRUE),
                      [o EXCEPT !.custom_pixelnumber = kw.custom_pixelnumber]))
    IN Then(s2, LAMBDA o : Detector_init(o, name, kw))

\* cls(name=name, **kwargs): the subclass __init__ runs Detector.__init__ and
\* then sets its own saturation threshold
Construct(cls, name, kw) ==
    IF cls = "Dummy"
    THEN Dummy_init(Blank(cls), name, kw)
    ELSE Then(Detector_init(Blank(cls), name, kw), LAMBDA o :
              IF SaturationThreshold(cls) # None
              THEN Out("none", [o EXCEPT !.saturation_threshold = SaturationThreshold(cls)])
              ELSE Out("none", o))

\* create_detector with a fall-through: an unrecognised name builds a Dummy
create_detector_fallback(name, kw) ==
    LET c == IF name \in Classes THEN name ELSE "Dummy"
        r == Construct(c, name, kw)
    IN [err |-> r.err, obj |-> IF r.err = "none" THEN r.obj ELSE NoDet, msg |-> << >>]

\* create_detector(name, **kwargs): the instance, or the exception raised;
\* msg is the text of the NotImplementedError
create_detector(name, kw) ==
    LET made(r) == [err |-> r.err, obj |-> IF r.err = "none" THEN r.obj ELSE NoDet,
                    msg |-> << >>]
    IN IF name = "Maxipix" THEN made(Construct("Maxipix", name, kw))
       ELSE IF name = "Eiger2M" THEN made(Construct("Eiger2M", name, kw))
       ELSE IF name = "Eiger4M" THEN made(Construct("Eiger4M", name, kw))
       ELSE IF name = "Timepix" THEN made(Construct("Timepix", name, kw))
       ELSE IF name = "Merlin" THEN made(Construct("Merlin", name, kw))
       ELSE IF name = "Dummy" THEN made(Construct("Dummy", name, kw))
       ELSE [err |-> "NotImplementedError", obj |-> NoDet,
             msg |-> <<"No implementation for the ", name, " detector">>]

----------------------------------------------------------------------------
(* Detector: the correction pipeline *)

\* the configured linearity functions the model knows, applied to an array
\* of any shape: "twice" is  lambda a: 2 * a  (elementwise, a new array of
\* the same shape and dtype)
CallFunc(f, a) ==
    CASE f = "twice" ->
           Arr(a.shape, a.dtype, [i \in DOMAIN a.val |-> Scale(a.val[i], 2)])

\* Detector._linearity_correction(self, data); arg is the array the
\* configured function is called with (None: it is not called)
linearity_correction(self, d) ==
    LET f == AsFloat(d)
    IN IF self.linearity_func # None
       THEN [data |-> Reshape(CallFunc(self.linearity_func.v, Flatten(f)),
                              f.shape[1], f.shape[2]),
             arg |-> Flatten(f)]
       ELSE [data |-> f, arg |-> None]

\* the flatfield applied in place (data *= flatfield)
flatfield_correction_inplace(d, flatfield) ==
    IF flatfield = None
    THEN [err |-> "none", data |-> d, new |-> FALSE]
    ELSE IF flatfield.shape # d.shape
         THEN [err |-> "ValueError", data |-> d, new |-> FALSE]
         ELSE [err |-> "none",
               data |-> Arr(d.shape, d.dtype,
                            [p \in DOMAIN d.val |-> Scale(d.val[p], flatfield.val[p])]),
               new |-> FALSE]

\* Detector._flatfield_correction(data, flatfield); new: the result is a
\* new array, not the array passed in
flatfield_correction(d, flatfield) ==
    IF flatfield = None
    THEN [err |-> "none", data |-> d, new |-> FALSE]
    ELSE IF flatfield.shape # d.shape
         THEN [err |-> "ValueError", data |-> d, new |-> FALSE]
         ELSE [err |-> "none",
               data |-> Arr(d.shape, Promote(flatfield.dtype, d.dtype),
                            [p \in DOMAIN d.val |-> Scale(d.val[p], flatfield.val[p])]),
               new |-> TRUE]

\* the background subtracted in place (data -= background)
background_subtraction_inplace(d, background) ==
    IF background = None
    THEN [err |-> "none", data |-> d, new |-> FALSE]
    ELSE IF background.shape # d.shape
         THEN [err |-> "ValueError", data |-> d, new |-> FALSE]
         ELSE [err |-> "none",
               data |-> Arr(d.shape, d.dtype,
                            [p \in DOMAIN d.val |-> Sub(d.val[p], FromInt(background.val[p]))]),
               new |-> FALSE]

\* the subtraction with its operands swapped (background - data)
background_subtraction_swapped(d, background) ==
    IF background = None
    THEN [err |-> "none", data |-> d, new |-> FALSE]
    ELSE IF background.shape # d.shape
         THEN [err |-> "ValueError", data |-> d, new |-> FALSE]
         ELSE [err |-> "none",
               data |-> Arr(d.shape, Promote(d.dtype, background.dtype),
                            [p \in DOMAIN d.val |-> Sub(FromInt(background.val[p]), d.val[p])]),
               new |-> TRUE]

\* Detector._background_subtraction(data, background)
background_subtraction(d, background) ==
    IF background = None
    THEN [err |-> "none", data |-> d, new |-> FALSE]
    ELSE IF background.shape # d.shape
         THEN [err |-> "ValueError", data |-> d, new |-> FALSE]
         ELSE [err |-> "none",
               data |-> Arr(d.shape, Promote(d.dtype, background.dtype),
                            [p \in DOMAIN d.val |-> Sub(d.val[p], FromInt(background.val[p]))]),
               new |-> TRUE]

\* the hot-pixel step with the 0/1 test after the two writes
hotpixels_correction_late(d, m, hotpixels) ==
    IF hotpixels = None
    THEN [err |-> "none", data |-> d, mask |-> m]
    ELSE IF hotpixels.shape # d.shape
         THEN [err |-> "ValueError", data |-> d, mask |-> m]
         ELSE [err |-> IF \E p \in DOMAIN hotpixels.val : hotpixels.val[p] \notin {0, 1}
                       THEN "ValueError" ELSE "none",
               data |-> [d EXCEPT !.val = [p \in DOMAIN d.val |->
                            IF hotpixels.val[p] = 1 THEN Zero ELSE d.val[p]]],
               mask |-> [m EXCEPT !.val = [p \in DOMAIN m.val |->
                            IF hotpixels.val[p] = 1 THEN 1 ELSE m.val[p]]]]

\* the hot-pixel step without the write to mask
hotpixels_correction_data_only(d, m, hotpixels) ==
    IF hotpixels = None
    THEN [err |-> "none", data |-> d, mask |-> m]
    ELSE IF hotpixels.shape # d.shape
         THEN [err |-> "ValueError", data |-> d, mask |-> m]
         ELSE IF \E p \in DOMAIN hotpixels.val : hotpixels.val[p] \notin {0, 1}
              THEN [err |-> "ValueError", data |-> d, mask |-> m]
              ELSE [err |-> "none",
                    data |-> [d EXCEPT !.val = [p \in DOMAIN d.val |->
                                 IF hotpixels.val[p] = 1 THEN Zero ELSE d.val[p]]],
                    mask |-> m]

\* the hot-pixel step copying the map into the mask (mask[...] = hotpixels)
hotpixels_correction_assign(d, m, hotpixels) ==
    IF hotpixels = None
    THEN [err |-> "none", data |-> d, mask |-> m]
    ELSE IF hotpixels.shape # d.shape
         THEN [err |-> "ValueError", data |-> d, mask |-> m]
         ELSE IF Cardinality({p \in DOMAIN hotpixels.val : hotpixels.val[p] = 0})
                   + Cardinality({p \in DOMAIN hotpixels.val : hotpixels.val[p] = 1})
                   # Cardinality(DOMAIN hotpixels.val)
              THEN [err |-> "ValueError", data |-> d, mask |-> m]
              ELSE [err |-> "none",
                    data |-> [d EXCEPT !.val = [p \in DOMAIN d.val |->
                                 IF hotpixels.val[p] = 1 THEN Zero ELSE d.val[p]]],
                    mask |-> [m EXCEPT !.val = [p \in DOMAIN m.val |->
                                 hotpixels.val[p]]]]

\* Detector._hotpixels_correction(data, mask, hotpixels): writes data and
\* mask in place
hotpixels_correction(d, m, hotpixels) ==
    IF hotpixels = None
    THEN [err |-> "none", data |-> d, mask |-> m]
    ELSE IF hotpixels.shape # d.shape
         THEN [err |-> "ValueError", data |-> d, mask |-> m]
         ELSE IF Cardinality({p \in DOMAIN hotpixels.val : hotpixels.val[p] = 0})
                   + Cardinality({p \in DOMAIN hotpixels.val : hotpixels.val[p] = 1})
                   # Cardinality(DOMAIN hotpixels.val)
              THEN [err |-> "ValueError", data |-> d, mask |-> m]
              ELSE [err |-> "none",
                    data |-> [d EXCEPT !.val = [p \in DOMAIN d.val |->
                                 IF hotpixels.val[p] = 1 THEN Zero ELSE d.val[p]]],
                    mask |-> [m EXCEPT !.val = [p \in DOMAIN m.val |->
                                 IF hotpixels.val[p] = 1 THEN 1 ELSE m.val[p]]]]

\* the saturation step with >= in place of >
saturation_correction_ge(self, d, m, nb_frames) ==
    IF self.saturation_threshold = None
    THEN [err |-> "none", data |-> d, mask |-> m]
    ELSE LET e == valid_item(nb_frames, {"int"}, PyInt(0), FALSE)
             limit == Scale(self.saturation_threshold, nb_frames.v)
         IN IF e # "none"
            THEN [err |-> e, data |-> d, mask |-> m]
            ELSE [err |-> "none",
                  data |-> [d EXCEPT !.val = [p \in DOMAIN d.val |->
                               IF ~Gt(limit, d.val[p]) THEN Zero ELSE d.val[p]]],
                  mask |-> [m EXCEPT !.val = [p \in DOMAIN m.val |->
                               IF ~Gt(limit, d.val[p]) THEN 1 ELSE m.val[p]]]]

\* the saturation step without the check of nb_frames
saturation_correction_unchecked(self, d, m, nb_frames) ==
    IF self.saturation_threshold = None
    THEN [err |-> "none", data |-> d, mask |-> m]
    ELSE LET limit == Scale(self.saturation_threshold, nb_frames.v)
         IN [err |-> "none",
             data |-> [d EXCEPT !.val = [p \in DOMAIN d.val |->
                          IF Gt(d.val[p], limit) THEN Zero ELSE d.val[p]]],
             mask |-> [m EXCEPT !.val = [p \in DOMAIN m.val |->
                          IF Gt(d.val[p], limit) THEN 1 ELSE m.val[p]]]]

\* Detector._saturation_correction(self, data, mask, nb_frames): writes mask,
\* then data, in place
saturation_correction(self, d, m, nb_frames) ==
    IF self.saturation_threshold = None
    THEN [err |-> "none", data |-> d, mask |-> m]
    ELSE LET e == valid_item(nb_frames, {"int"}, PyInt(0), FALSE)
             limit == Scale(self.saturation_threshold, nb_frames.v)
         IN IF e # "none"
            THEN [err |-> e, data |-> d, mask |-> m]
            ELSE [err |-> "none",
                  data |-> [d EXCEPT !.val = [p \in DOMAIN d.val |->
                               IF Gt(d.val[p], limit) THEN Zero ELSE d.val[p]]],
                  mask |-> [m EXCEPT !.val = [p \in DOMAIN m.val |->
                               IF Gt(d.val[p], limit) THEN 1 ELSE m.val[p]]]]

\* the locals of mask_detector: the exception propagating (or "none"), the
\* arrays bound to data and mask, and whether data is still the caller's array
Locals(err, d, own, m) == [err |-> err, data |-> d, own |-> own, mask |-> m]

\* a step that may rebind data to a new array
Rebind(st, r) ==
    IF st.err # "none" THEN st
    ELSE Locals(r.err, r.data, st.own /\ ~r.new, st.mask)

\* a step that writes data and mask in place
InPlace(st, r) ==
    IF st.err # "none" THEN st
    ELSE Locals(r.err, r.data, st.own, r.mask)

\* mask_detector working on copies that it writes back on success only: a
\* failing step leaves the caller's arrays as they were passed
mask_detector_rollback(self, d, m, nb_frames, flatfield, background, hotpixels) ==
    LET entry == Locals(IF d.shape # m.shape THEN "ValueError" ELSE "none",
                        d, TRUE, m)
        called == entry.err = "none" /\ self.linearity_func # None
        lin == IF called
               THEN Locals("none", CallFunc(self.linearity_func.v, d), FALSE, m)
               ELSE entry
        flat == Rebind(lin, flatfield_correction(lin.data, flatfield))
        bkg == Rebind(flat, background_subtraction(flat.data, background))
        hot == InPlace(bkg, hotpixels_correction(bkg.data, bkg.mask, hotpixels))
        gaps == InPlace(hot, mask_gaps(self.cls, hot.data, hot.mask))
        sat == InPlace(gaps, saturation_correction(self, gaps.data, gaps.mask, nb_frames))
    IN [entry |-> entry, lin_arg |-> IF called THEN d ELSE None, lin |-> lin,
        flat |-> flat, bkg |-> bkg, hot |-> hot, gaps |-> gaps,
        sat |-> IF sat.err = "none" THEN sat ELSE Locals(sat.err, d, TRUE, m)]

\* mask_detector returning after the hot-pixel step, without the gap and
\* saturation steps
mask_detector_hot_only(self, d, m, nb_frames, flatfield, background, hotpixels) ==
    LET entry == Locals(IF d.shape # m.shape THEN "ValueError" ELSE "none",
                        d, TRUE, m)
        called == entry.err = "none" /\ self.linearity_func # None
        lin == IF called
               THEN Locals("none", CallFunc(self.linearity_func.v, d), FALSE, m)
               ELSE entry
        flat == Rebind(lin, flatfield_correction(lin.data, flatfield))
        bkg == Rebind(flat, background_subtraction(flat.data, background))
        hot == InPlace(bkg, hotpixels_correction(bkg.data, bkg.mask, hotpixels))
    IN [entry |-> entry, lin_arg |-> IF called THEN d ELSE None, lin |-> lin,
        flat |-> flat, bkg |-> bkg, hot |-> hot, gaps |-> hot, sat |-> hot]

\* Detector.mask_detector(self, data, mask, nb_frames, flatfield, background,
\* hotpixels): the locals after the entry checks and after each step, and
\* the array the linearity function was called with
mask_detector(self, d, m, nb_frames, flatfield, background, hotpixels) ==
    LET entry == Locals(IF d.shape # m.shape THEN "ValueError" ELSE "none",
                        d, TRUE, m)
        called == entry.err = "none" /\ self.linearity_func # None
        lin == IF called
               THEN Locals("none", CallFunc(self.linearity_func.v, d), FALSE, m)
               ELSE entry
        flat == Rebind(lin, flatfield_correction(lin.data, flatfield))
        bkg == Rebind(flat, background_subtraction(flat.data, background))
        hot == InPlace(bkg, hotpixels_correction(bkg.data, bkg.mask, hotpixels))
        gaps == InPlace(hot, mask_gaps(self.cls, hot.data, hot.mask))
        sat == InPlace(gaps, saturation_correction(self, gaps.data, gaps.mask, nb_frames))
    IN [entry |-> entry, lin_arg |-> IF called THEN d ELSE None, lin |-> lin,
        flat |-> flat, bkg |-> bkg, hot |-> hot, gaps |-> gaps, sat |-> sat]

----------------------------------------------------------------------------
(* The frames and arguments the caller supplies *)

\* nb_frames ranges over 1..MaxFrames and flatfield values over 1..MaxFlat
MaxFrames == 2
MaxFlat == 2
BackgroundValues == {0, 1}

\* the value the model uses around the saturation limit of a class (the
\* threshold of Maxipix where the class has none)
Level(cls) ==
    IF SaturationThreshold(cls) = None THEN Val(1, 0) ELSE SaturationThreshold(cls)

\* pixel values of a raw frame: a few counts, the threshold, just above it
PixelValues(cls) == {FromInt(5), Level(cls), Add(Level(cls), FromInt(1))}

\* a pixel of the sensor away from every gap, and the pair of pixels on
\* which the full set of correction arguments is exercised
RefPixel == <<100, 100>>
RichSet == {RefPixel, <<100, 255>>}

\* the indices next to the bounds of an index expression on an axis of length n
Marks(s, n) ==
    CASE s.k = "sl" -> {s.a - 1, s.a, s.b - 1, s.b}
      [] s.k = "idx" -> {s.a - 1, s.a, s.a + 1}
      [] s.k = "from" -> {Clip(s.a, n) - 1, Clip(s.a, n)}
      [] s.k = "upto" -> {Clip(s.b, n) - 1, Clip(s.b, n)}
      [] OTHER -> {}

\* the pixels on both sides of every slice bound of the class's gap table,
\* and the corners of the frame
Probes(cls, shape) ==
    LET g == GapStmts(cls)
        rows == {0, shape[1] - 1} \cup UNION {Marks(g[i].rows, shape[1]) : i \in 1..Len(g)}
        cols == {0, shape[2] - 1} \cup UNION {Marks(g[i].cols, shape[2]) : i \in 1..Len(g)}
    IN Inside({p \in rows \X cols : p[1] >= 0 /\ p[2] >= 0}, shape)

\* the sets of pixels a behaviour may track: the pair RichSet, or a probe
\* with the reference pixel
TrackedSets(self, shape) ==
    {Inside(RichSet, shape)} \cup
    (IF self.linearity_func # None THEN {}
     ELSE {Inside({p, RefPixel}, shape) : p \in Probes(self.cls, shape)})

\* a frame of the full detector, and a frame cropped to a region of interest
CropShape == <<200, 200>>
FrameShapes(self) == {<<nb_pixel_y(self), nb_pixel_x(self)>>, CropShape}

\* the arrays of one shape and dtype over the tracked pixels P
Arrays(shape, dtype, P, values) ==
    {Arr(shape, dtype, v) : v \in [Inside(P, shape) -> values]}

\* an array one row taller
Taller(shape) == <<shape[1] + 1, shape[2]>>

Call(d, nb_frames, flatfield, background, hotpixels) ==
    [data |-> d, nb_frames |-> nb_frames, flatfield |-> flatfield,
     background |-> background, hotpixels |-> hotpixels]

CallSet(D, N, F, B, H) == {Call(d, n, f, b, h) : d \in D, n \in N, f \in F, b \in B, h \in H}

ValidFrames == {PyInt(n) : n \in 1..MaxFrames}
BadFrames == {PyInt(0), PyInt(-1), PyFloat(2)}

\* raw frames hold integer counts; the correction arrays are float arrays
\* (of integral values here)
Frames(cls, shape, P) == Arrays(shape, "int", P, PixelValues(cls))
Flatfields(shape, P) == Arrays(shape, "float", P, 1..MaxFlat)
Backgrounds(shape, P) == Arrays(shape, "float", P, BackgroundValues)
Hotpixels(shape, P) == Arrays(shape, "int", P, {0, 1})
\* hot-pixel maps that hold a value other than 0 and 1
BadHotpixels(shape, P) == Arrays(shape, "int", P, {0, 1, 2}) \ Hotpixels(shape, P)
Ones(shape, P) == Arrays(shape, "int", P, {1})

\* every combination of valid corrections on the tracked pixels
RichCalls(cls, shape, P) ==
    CallSet(Frames(cls, shape, P), ValidFrames,
            {None} \cup Flatfields(shape, P),
            {None} \cup Backgrounds(shape, P),
            {None} \cup Hotpixels(shape, P))

\* a frame of a few counts alone, with or without the hot-pixel map
PlainCalls(cls, shape, P) ==
    CallSet(Arrays(shape, "int", P, {FromInt(5)}), {PyInt(1)}, {None}, {None},
            {None} \cup Ones(shape, P))

\* a hot-pixel map that is not made of 0 and 1
BadHotpixelsCalls(cls, shape, P) ==
    CallSet(Frames(cls, shape, P), {PyInt(1)},
            {None} \cup Arrays(shape, "float", P, {MaxFlat}),
            {None} \cup Arrays(shape, "float", P, {1}),
            BadHotpixels(shape, P))

\* an nb_frames that is not a positive integer
BadFramesCalls(cls, shape, P) ==
    CallSet(Frames(cls, shape, P), BadFrames, {None}, {None},
            {None} \cup Ones(shape, P))

\* one array (the frame itself, against the mask, or a correction array)
\* one row taller than the others
MismatchCalls(cls, shape, P) ==
    LET F == Frames(cls, shape, P)
        opt(S) == {None} \cup S
        ff == Arrays(shape, "float", P, {MaxFlat})
        bg == Arrays(shape, "float", P, {1})
        hp == Ones(shape, P)
    IN CallSet(Frames(cls, Taller(shape), P), {PyInt(1)}, opt(ff), opt(bg), opt(hp))
       \cup CallSet(F, {PyInt(1)}, Arrays(Taller(shape), "float", P, {MaxFlat}), opt(bg), opt(hp))
       \cup CallSet(F, {PyInt(1)}, opt(ff), Arrays(Taller(shape), "float", P, {1}), opt(hp))
       \cup CallSet(F, {PyInt(1)}, opt(ff), opt(bg), Ones(Taller(shape), P))

\* frames of either dtype for a detector with a linearity function
LinearityCalls(cls, shape, P) ==
    LET ff == Arrays(shape, "float", P, {MaxFlat})
    IN CallSet(Frames(cls, shape, P) \cup Arrays(shape, "float", P, PixelValues(cls)),
               {PyInt(1)}, {None} \cup ff, {None}, {None} \cup Ones(shape, P))

\* a frame that is zero but for a few counts on the reference pixel, which
\* the hot-pixel map marks alone
HotSpotCalls(cls, shape, P) ==
    {Call(Arr(shape, "int", [p \in P |-> IF p = RefPixel THEN FromInt(5) ELSE Zero]),
          PyInt(1), None, None,
          Arr(shape, "int", [p \in P |-> IF p = RefPixel THEN 1 ELSE 0]))}

\* a frame whose probed pixel holds a value above the saturation limit
BrightCalls(cls, shape, P) ==
    {Call(Arr(shape, "int", [p \in P |-> IF p = RefPixel THEN FromInt(5)
                                          ELSE Add(Level(cls), FromInt(1))]),
          PyInt(1), None, None, None)}

\* the calls made on a detector whose running mask has this shape: every
\* combination of arguments on the pair RichSet; a plain frame, a hot spot
\* and a bright pixel on the probes
Calls(self, shape, P) ==
    IF P # RichSet
    THEN PlainCalls(self.cls, shape, P) \cup HotSpotCalls(self.cls, shape, P)
         \cup BrightCalls(self.cls, shape, P)
    ELSE IF self.linearity_func # None
         THEN LinearityCalls(self.cls, shape, P)
         ELSE RichCalls(self.cls, shape, P) \cup BadFramesCalls(self.cls, shape, P)
              \cup BadHotpixelsCalls(self.cls, shape, P)
              \cup MismatchCalls(self.cls, shape, P)

----------------------------------------------------------------------------
(* Specification of the correction pipeline: a detector made by the        *)
(* factory, a running mask, and frames corrected one after the other.      *)

NoCall == [op |-> "none"]

\* a detector of each class, with and without a linearity function
Init ==
    /\ det \in {create_detector(n, [DefaultKw EXCEPT !.linearity_func = f]).obj :
                  n \in Classes, f \in {None, PyFunc("twice")}}
    /\ px = {}
    /\ data = NoArr
    /\ mask = NoArr
    /\ args = NoCall
    /\ steps = NoCall
    /\ ret = NoCall
    /\ pc = "idle"
    /\ nassign = 0

\* the caller allocates the running mask, np.zeros(shape)
NewMask ==
    /\ pc = "idle"
    /\ det # NoDet
    /\ mask = NoArr
    /\ \E shape \in FrameShapes(det) : \E P \in TrackedSets(det, shape) :
         /\ px' = P
         /\ mask' = Arr(shape, "int", [p \in P |-> 0])
    /\ UNCHANGED <<det, data, args, steps, ret, pc, nassign>>

\* data, mask = detector.mask_detector(data, mask, nb_frames, flatfield,
\* background, hotpixels) on the running mask
MaskDetector ==
    /\ pc = "idle"
    /\ det # NoDet
    /\ mask # NoArr
    /\ \E c \in Calls(det, mask.shape, px) :
         \E s \in {mask_detector(det, c.data, mask, c.nb_frames, c.flatfield,
                                 c.background, c.hotpixels)} :
            /\ data' = (IF s.sat.own THEN s.sat.data ELSE c.data)
            /\ mask' = s.sat.mask
            /\ args' = [op |-> "mask_detector", nb_frames |-> c.nb_frames,
                        flatfield |-> c.flatfield, background |-> c.background,
                        hotpixels |-> c.hotpixels]
            /\ steps' = s
            /\ ret' = [op |-> "mask_detector", err |-> s.sat.err,
                       data |-> IF s.sat.err = "none" THEN s.sat.data ELSE None,
                       mask |-> IF s.sat.err = "none" THEN s.sat.mask ELSE None]
    /\ pc' = "done"
    /\ UNCHANGED <<det, px, nassign>>

\* the caller keeps the running mask and loads the next frame
NextFrame ==
    /\ pc = "done"
    /\ ret.op = "mask_detector"
    /\ data' = NoArr
    /\ args' = NoCall
    /\ steps' = NoCall
    /\ ret' = NoCall
    /\ pc' = "idle"
    /\ UNCHANGED <<det, px, mask, nassign>>

Next == NewMask \/ MaskDetector \/ NextFrame

Spec == Init /\ [][Next]_vars

----------------------------------------------------------------------------
(* Specification of the configuration: the factory is called with one      *)
(* keyword argument, then attributes of the instance are assigned.         *)

\* at most MaxAssign assignments follow a construction
MaxAssign == 1

Names == Classes \cup {"maxipix", "Eiger", ""}

Triple(a, b, c) == <<PyInt(a), PyInt(b), PyInt(c)>>
Box(a, b, c, d) == <<PyInt(a), PyInt(b), PyInt(c), PyInt(d)>>

StrValues == {None, PyStr(<< >>), PyStr(<<"d">>), PyInt(1)}

BinningValues ==
    {PyTuple(Triple(1, 1, 1)), PyTuple(Triple(1, 2, 2)), PyList(Triple(2, 1, 3)),
     PyTuple(Triple(1, 0, 1)), PyTuple(Triple(1, -1, 1)),
     PyTuple(<<PyInt(1), PyInt(1)>>), PyTuple(<<PyInt(1), PyFloat(2), PyInt(1)>>),
     PyTuple(<< >>), PyInt(2), None}

RoiValues ==
    {None, PyList(<< >>), PyTuple(<< >>), PyList(Box(0, 10, 0, 20)),
     PyTuple(Box(30, 10, -5, 20)), PyList(Triple(0, 10, 0)),
     PyList(<<PyInt(0), PyFloat(10), PyInt(0), PyInt(20)>>), PyInt(4)}

FuncValues == {None, PyFunc("twice"), PyInt(3)}

PixelSizeValues == {None, PyFloat(75), PyInt(0), PyStr(<<"d">>)}

PixelNumberValues ==
    {None, PyTuple(<<PyInt(128), PyInt(300)>>), PyTuple(<<PyInt(128), PyInt(0)>>),
     PyTuple(Triple(128, 128, 128)), PyList(<<PyInt(64), PyFloat(64)>>)}

StrFields ==
    {"rootdir", "datadir", "savedir", "sample_name", "template_file",
     "template_imagefile", "specfile"}

\* the attributes assigned after construction
Fields == StrFields \cup {"binning", "preprocessing_binning", "roi", "sum_roi"}

\* the keyword arguments of the constructors
KwFields ==
    Fields \cup {"linearity_func", "custom_pixelsize", "custom_pixelnumber"}

ValuesOf(k) ==
    CASE k \in StrFields -> StrValues
      [] k \in {"binning", "preprocessing_binning"} -> BinningValues
      [] k \in {"roi", "sum_roi"} -> RoiValues
      [] k = "linearity_func" -> FuncValues
      [] k = "custom_pixelsize" -> PixelSizeValues
      [] k = "custom_pixelnumber" -> PixelNumberValues

\* both overrides of Dummy given together, with and without a preprocessing
\* binning
OverrideKwargs ==
    {[DefaultKw EXCEPT !.custom_pixelnumber = n, !.custom_pixelsize = z,
                       !.preprocessing_binning = b] :
        n \in PixelNumberValues \ {None}, z \in PixelSizeValues \ {None},
        b \in {None, PyTuple(Triple(1, 2, 2))}}

\* the constructor calls: no keyword argument, or one, or Dummy's overrides
Kwargs ==
    UNION {{[DefaultKw EXCEPT ![k] = v] : v \in ValuesOf(k)} : k \in KwFields}
        \cup OverrideKwargs


\* self.<field> = value through the property setter of the field
Assign(self, field, value) ==
    CASE field = "binning" -> set_binning(self, value)
      [] field = "preprocessing_binning" -> set_preprocessing_binning(self, value)
      [] field = "roi" -> set_roi(self, value)
      [] field = "sum_roi" -> set_sum_roi(self, value)
      [] field = "rootdir" -> set_rootdir(self, value)
      [] field = "datadir" -> set_datadir(self, value)
      [] field = "savedir" -> set_savedir(self, value)
      [] field = "sample_name" -> set_sample_name(self, value)
      [] field = "template_file" -> set_template_file(self, value)
      [] field = "template_imagefile" -> set_template_imagefile(self, value)
      [] field = "specfile" -> set_specfile(self, value)

InitConfig ==
    /\ det = NoDet
    /\ px = {}
    /\ data = NoArr
    /\ mask = NoArr
    /\ args = NoCall
    /\ steps = NoCall
    /\ ret = NoCall
    /\ pc = "idle"
    /\ nassign = 0

\* det = create_detector(name, **kwargs)
CreateDetector ==
    /\ pc = "idle"
    /\ det = NoDet
    /\ \E name \in Names : \E kw \in Kwargs :
         \E r \in {create_detector(name, kw)} :
            /\ det' = r.obj
            /\ ret' = [op |-> "create_detector", name |-> name, kw |-> kw,
                       err |-> r.err, msg |-> r.msg]
    /\ pc' = "done"
    /\ UNCHANGED <<px, data, mask, args, steps, nassign>>

\* det.<field> = value
SetAttribute ==
    /\ pc = "idle"
    /\ det # NoDet
    /\ nassign < MaxAssign
    /\ \E field \in Fields : \E value \in ValuesOf(field) :
         \E r \in {Assign(det, field, value)} :
            /\ det' = r.obj
            /\ ret' = [op |-> "assign", field |-> field, value |-> value,
                       err |-> r.err, before |-> det]
    /\ pc' = "done"
    /\ nassign' = nassign + 1
    /\ UNCHANGED <<px, data, mask, args, steps>>

\* the program goes on with the instance it has
Resume ==
    /\ pc = "done"
    /\ ret.op \in {"create_detector", "assign"}
    /\ det # NoDet
    /\ ret' = NoCall
    /\ pc' = "idle"
    /\ UNCHANGED <<det, px, data, mask, args, steps, nassign>>

NextConfig == CreateDetector \/ SetAttribute \/ Resume

SpecConfig == InitConfig /\ [][NextConfig]_vars

----------------------------------------------------------------------------
(* Properties *)

\* a call of mask_detector has just ended
Called == pc = "done" /\ ret.op = "mask_detector"

\* the pixels of a frame
Pixels(a) == DOMAIN a.val

\* pixel p lies in a region named by the gap table of the class
GapRegion(cls, shape, p) ==
    \E i \in 1..Len(GapStmts(cls)) :
        /\ Selects(GapStmts(cls)[i].rows, shape[1], p[1])
        /\ Selects(GapStmts(cls)[i].cols, shape[2], p[2])

\* nb_frames is a positive integer
PositiveInt(n) == n.t = "int" /\ n.v > 0

(* C1: create_detector(name, ...) returns an instance of the same-named    *)
(* class for each of the six names (exact match); for every other name it  *)
(* raises NotImplementedError with the name in its message and no detector *)
(* object is constructed.                                                  *)
C1_FactoryDispatch ==
    (pc = "done" /\ ret.op = "create_detector") =>
        IF ret.name \in {"Maxipix", "Eiger2M", "Eiger4M", "Timepix", "Merlin", "Dummy"}
        THEN /\ ret.err # "NotImplementedError"
             /\ ret.kw = DefaultKw => ret.err = "none"
             /\ ret.err = "none" => (det # NoDet /\ det.cls = ret.name /\ det.name = ret.name)
        ELSE /\ ret.err = "NotImplementedError"
             /\ \E i \in 1..Len(ret.msg) : ret.msg[i] = ret.name
             /\ det = NoDet

C1_Witness ==
    /\ pc = "done" /\ ret.op = "create_detector"
    /\ ret.name = "maxipix" /\ ret.kw.roi # None
    /\ ret.err = "NotImplementedError" /\ det = NoDet

(* C2: for every class, after the gap step every pixel of the class's gap  *)
(* regions has data = 0 and mask = 1, and no pixel outside them is changed *)
(* in data or in mask.                                                     *)
C2_GapsZeroAndMask ==
    (Called /\ steps.hot.err = "none" /\ steps.gaps.err = "none") =>
        \A p \in Pixels(steps.gaps.data) :
            IF GapRegion(det.cls, steps.gaps.data.shape, p)
            THEN steps.gaps.data.val[p] = Zero /\ steps.gaps.mask.val[p] = 1
            ELSE /\ steps.gaps.data.val[p] = steps.hot.data.val[p]
                 /\ steps.gaps.mask.val[p] = steps.hot.mask.val[p]

(* C3: when a linearity function is configured, mask_detector calls it     *)
(* with the flattened (1D) frame, never with the 2D array, and its         *)
(* linearity step yields what _linearity_correction yields (a float frame  *)
(* of the 2D shape).                                                       *)
C3_LinearityFlattened ==
    (Called /\ steps.lin_arg # None) =>
        /\ Len(steps.lin_arg.shape) = 1
        /\ steps.lin.data = linearity_correction(det, steps.entry.data).data

\* the thresholds C4 names
C4_Threshold(cls) == IF cls = "Eiger4M" THEN Val(4000, 0) ELSE Val(1, 0)

(* C4: for Maxipix, Eiger2M, Merlin (1e6) and Eiger4M (4e9) and a positive *)
(* integer nb_frames, the saturation step sets data to 0 and mask to 1 at  *)
(* exactly the pixels whose value is > threshold * nb_frames and leaves    *)
(* every other pixel of data and mask unchanged.                           *)
C4_SaturationExact ==
    (/\ Called
     /\ det.cls \in {"Maxipix", "Eiger2M", "Merlin", "Eiger4M"}
     /\ steps.gaps.err = "none"
     /\ PositiveInt(args.nb_frames)) =>
        /\ steps.sat.err = "none"
        /\ \A p \in Pixels(steps.gaps.data) :
             LET over == Gt(steps.gaps.data.val[p],
                            Scale(C4_Threshold(det.cls), args.nb_frames.v))
             IN /\ steps.sat.data.val[p] =
                     (IF over THEN Zero ELSE steps.gaps.data.val[p])
                /\ steps.sat.mask.val[p] =
                     (IF over THEN 1 ELSE steps.gaps.mask.val[p])

\* Eiger4M: one pixel above 4e9 * nb_frames is zeroed and masked, the other,
\* equal to the limit, is kept
C4_Witness ==
    /\ Called /\ det.cls = "Eiger4M" /\ steps.sat.err = "none"
    /\ args.nb_frames = PyInt(2)
    /\ \E p, q \in Pixels(steps.gaps.data) :
         /\ Gt(steps.gaps.data.val[p], Val(8000, 0))
         /\ steps.gaps.mask.val[p] = 0
         /\ steps.sat.data.val[p] = Zero /\ steps.sat.mask.val[p] = 1
         /\ steps.gaps.data.val[q] = Val(8000, 0)
         /\ steps.sat.data.val[q] = Val(8000, 0) /\ steps.sat.mask.val[q] = 0

(* C5 as claimed: for every class, Timepix and Dummy included, a call     *)
(* with nb_frames <= 0 or a non-integer nb_frames fails with a validation  *)
(* error instead of returning a result (the steps before the saturation    *)
(* step having passed).                                                    *)
C5_BadFramesAlwaysFail ==
    (Called /\ ~PositiveInt(args.nb_frames) /\ steps.gaps.err = "none") =>
        ret.err = "ValidationError"

(* C5 amended: nb_frames is checked by the saturation step only, so only   *)
(* for the classes with a saturation threshold (Maxipix, Eiger2M, Eiger4M, *)
(* Merlin): there a call with nb_frames <= 0 or non-integer never returns  *)
(* a result, and fails with a validation error once the earlier steps have *)
(* passed.  For Timepix and Dummy nb_frames is not checked: the call       *)
(* returns normally whenever the earlier steps pass.                       *)
C5_BadFramesFailWithThreshold ==
    (Called /\ ~PositiveInt(args.nb_frames)) =>
        IF det.cls \in {"Maxipix", "Eiger2M", "Eiger4M", "Merlin"}
        THEN /\ ret.err # "none"
             /\ steps.gaps.err = "none" => ret.err = "ValidationError"
        ELSE ret.err = steps.gaps.err

C5_Witness ==
    /\ Called /\ det.cls = "Merlin" /\ args.nb_frames = PyFloat(2)
    /\ steps.gaps.err = "none" /\ ret.err = "ValidationError"

\* the hot-pixel map of the call has the shape of data and holds a value
\* other than 0 and 1
BadHotpixelMap ==
    /\ args.hotpixels # None
    /\ args.hotpixels.shape = steps.entry.data.shape
    /\ \E p \in Pixels(args.hotpixels) : args.hotpixels.val[p] \notin {0, 1}

(* C6: mask_detector with a hotpixels array of the shape of data that      *)
(* holds a value other than 0 or 1 raises, and the test comes before the   *)
(* hot-pixel step writes to data or mask: the step leaves both as it found *)
(* them and the caller's arrays are those passed in.                       *)
C6_HotpixelValuesChecked ==
    (Called /\ BadHotpixelMap) =>
        /\ ret.err # "none"
        /\ steps.bkg.err = "none" =>
             /\ steps.hot.err = "ValueError"
             /\ steps.hot.data = steps.bkg.data
             /\ steps.hot.mask = steps.bkg.mask
        /\ data = steps.entry.data
        /\ mask = steps.entry.mask

\* one pixel of the map holds 2, another holds 1 on a pixel that is neither
\* zero nor masked
C6_Witness ==
    /\ Called /\ BadHotpixelMap /\ steps.bkg.err = "none"
    /\ steps.hot.err = "ValueError"
    /\ \E p \in Pixels(args.hotpixels) :
         /\ args.hotpixels.val[p] = 1
         /\ steps.bkg.data.val[p] # Zero
         /\ steps.bkg.mask.val[p] = 0

(* C7: with a valid hotpixels array H, after mask_detector every pixel     *)
(* with H = 1 has data = 0 and mask = 1 whatever flatfield and background  *)
(* hold there, and the hot-pixel step changes no pixel with H = 0.         *)
C7_HotpixelsZeroed ==
    (Called /\ ret.err = "none" /\ args.hotpixels # None) =>
        \A p \in Pixels(args.hotpixels) :
            /\ args.hotpixels.val[p] = 1 =>
                 (ret.data.val[p] = Zero /\ ret.mask.val[p] = 1)
            /\ args.hotpixels.val[p] = 0 =>
                 /\ steps.hot.data.val[p] = steps.bkg.data.val[p]
                 /\ steps.hot.mask.val[p] = steps.bkg.mask.val[p]

\* a hot pixel outside the gaps whose value after flatfield and background
\* is not 0 and whose mask was 0, next to a pixel with H = 0
C7_Witness ==
    /\ Called /\ ret.err = "none" /\ args.hotpixels # None
    /\ args.flatfield # None /\ args.background # None
    /\ args.hotpixels.val[RefPixel] = 1
    /\ args.background.val[RefPixel] = 1
    /\ steps.bkg.data.val[RefPixel] # Zero
    /\ steps.entry.mask.val[RefPixel] = 0
    /\ ret.data.val[RefPixel] = Zero /\ ret.mask.val[RefPixel] = 1
    /\ \E q \in Pixels(args.hotpixels) : args.hotpixels.val[q] = 0

\* the value C8 gives for pixel p: data * F - B on the frame that enters the
\* flatfield step (F = 1, B = 0 when the array is omitted)
C8_Expected(p) ==
    Sub(Scale(steps.lin.data.val[p],
              IF args.flatfield = None THEN 1 ELSE args.flatfield.val[p]),
        FromInt(IF args.background = None THEN 0 ELSE args.background.val[p]))

\* pixel p is zeroed by none of the hot-pixel, gap and saturation steps
C8_Kept(p) ==
    /\ args.hotpixels = None \/ args.hotpixels.val[p] # 1
    /\ ~GapRegion(det.cls, steps.entry.data.shape, p)
    /\ det.saturation_threshold = None \/
         ~Gt(C8_Expected(p), Scale(det.saturation_threshold, args.nb_frames.v))

(* C8: flatfield is applied before background: every pixel that is not     *)
(* zeroed afterwards by the hot-pixel, gap or saturation step has the      *)
(* output value data * F - B; with F (resp. B) omitted the multiplication  *)
(* (resp. subtraction) leaves the value unchanged.                         *)
C8_FlatfieldThenBackground ==
    (Called /\ ret.err = "none") =>
        \A p \in Pixels(ret.data) :
            /\ C8_Kept(p) => ret.data.val[p] = C8_Expected(p)
            /\ args.flatfield = None => steps.flat.data = steps.lin.data
            /\ args.background = None => steps.bkg.data = steps.flat.data

\* 5 counts, flatfield 2, background 1: the pixel holds 9, not (5 - 1) * 2
C8_Witness ==
    /\ Called /\ ret.err = "none"
    /\ args.flatfield # None /\ args.background # None
    /\ steps.entry.data.val[RefPixel] = FromInt(5)
    /\ args.flatfield.val[RefPixel] = 2
    /\ args.background.val[RefPixel] = 1
    /\ ret.data.val[RefPixel] = FromInt(9)

\* one of the arrays of the call has a shape other than that of data
ShapeMismatch ==
    \/ steps.entry.mask.shape # steps.entry.data.shape
    \/ args.flatfield # None /\ args.flatfield.shape # steps.entry.data.shape
    \/ args.background # None /\ args.background.shape # steps.entry.data.shape
    \/ args.hotpixels # None /\ args.hotpixels.shape # steps.entry.data.shape

(* C9: with no linearity function configured, when mask, or a supplied     *)
(* flatfield, background or hotpixels array, has a shape other than that   *)
(* of data, mask_detector raises and the caller's data and mask arrays     *)
(* hold the values they had before the call.                               *)
C9_MismatchBeforeMutation ==
    (Called /\ det.linearity_func = None /\ ShapeMismatch) =>
        /\ ret.err = "ValueError"
        /\ data = steps.entry.data
        /\ mask = steps.entry.mask

\* the background has the wrong shape and is reached after a flatfield that
\* changes the values; the hot-pixel map would have written both arrays
C9_Witness ==
    /\ Called /\ det.linearity_func = None /\ ret.err = "ValueError"
    /\ args.flatfield # None /\ steps.flat.err = "none"
    /\ steps.flat.data # steps.entry.data
    /\ args.background # None /\ args.background.shape # steps.entry.data.shape
    /\ args.hotpixels # None
    /\ data = steps.entry.data

\* the string fields whose setter asks for min_length=1
NonEmptyFields == {"rootdir", "datadir", "savedir", "sample_name"}

(* C10 as claimed: every string field (rootdir, datadir, savedir,          *)
(* sample_name, template_file, template_imagefile, specfile) accepts None  *)
(* and rejects an empty string with a validation error, at assignment and  *)
(* at construction.                                                        *)
C10_EmptyStringRejected ==
    /\ (pc = "done" /\ ret.op = "assign" /\ ret.field \in StrFields) =>
          /\ ret.value = None => (ret.err = "none" /\ det[ret.field] = None)
          /\ ret.value = PyStr(<< >>) => ret.err = "ValidationError"
    /\ (pc = "done" /\ ret.op = "create_detector" /\ ret.name \in Classes) =>
          \A f \in StrFields : ret.kw[f] = PyStr(<< >>) => ret.err = "ValidationError"

(* C10 amended: rootdir, datadir, savedir and sample_name accept None and  *)
(* reject an empty string with a validation error, at assignment and at    *)
(* construction; template_file and template_imagefile accept None and any  *)
(* string, the empty one included; specfile is stored as given.            *)
C10_StringFields ==
    /\ (pc = "done" /\ ret.op = "assign" /\ ret.field \in StrFields) =>
          /\ ret.value = None => (ret.err = "none" /\ det[ret.field] = None)
          /\ ret.value = PyStr(<< >>) =>
               IF ret.field \in NonEmptyFields
               THEN ret.err = "ValidationError" /\ det = ret.before
               ELSE ret.err = "none" /\ det[ret.field] = PyStr(<< >>)
          /\ ret.field = "specfile" => (ret.err = "none" /\ det.specfile = ret.value)
    /\ (pc = "done" /\ ret.op = "create_detector" /\ ret.name \in Classes) =>
          \A f \in StrFields :
              /\ ret.kw[f] = PyStr(<< >>) =>
                   IF f \in NonEmptyFields
                   THEN ret.err = "ValidationError" /\ det = NoDet
                   ELSE ret.err = "none" /\ det[f] = PyStr(<< >>)
              /\ (ret.kw[f] = None /\ ret.err = "none") => det[f] = None

\* the empty string assigned to datadir of an instance whose datadir is set
C10_Witness ==
    /\ pc = "done" /\ ret.op = "assign" /\ ret.field = "datadir"
    /\ ret.value = PyStr(<< >>) /\ ret.err = "ValidationError"
    /\ ret.before.datadir = PyStr(<<"d">>) /\ det.datadir = PyStr(<<"d">>)

\* a length-3 tuple or list of integers > 0
IsBinning(v) ==
    /\ v.t \in {"tuple", "list"}
    /\ Len(v.v) = 3
    /\ \A i \in 1..3 : v.v[i].t = "int" /\ v.v[i].v > 0

\* create_detector has just run for one of the six classes
Constructed == pc = "done" /\ ret.op = "create_detector" /\ ret.name \in Classes

(* C11: in every state reached by construction and assignments, binning    *)
(* and preprocessing_binning each hold a length-3 sequence of integers     *)
(* > 0; a value given by assignment or as a constructor argument that has  *)
(* another length, a non-integer element or an element <= 0 is rejected    *)
(* with a validation error; preprocessing_binning is the default (1, 1, 1) *)
(* only when no value was supplied, a supplied value being the one stored. *)
C11_BinningValidated ==
    /\ det # NoDet => (IsBinning(det.binning) /\ IsBinning(det.preprocessing_binning))
    /\ (pc = "done" /\ ret.op = "assign"
            /\ ret.field \in {"binning", "preprocessing_binning"}) =>
          IF IsBinning(ret.value)
          THEN ret.err = "none" /\ det[ret.field] = ret.value
          ELSE ret.err = "ValidationError" /\ det = ret.before
    /\ Constructed =>
          /\ ~IsBinning(ret.kw.binning) => ret.err = "ValidationError"
          /\ (ret.kw.preprocessing_binning # None
                 /\ ~IsBinning(ret.kw.preprocessing_binning)) =>
               ret.err = "ValidationError"
          /\ (ret.err = "none" /\ ret.kw.preprocessing_binning # None) =>
               det.preprocessing_binning = ret.kw.preprocessing_binning

\* the instance with the stacking elements (index 0) of binning and
\* preprocessing_binning replaced by j and k
Restacked(self, j, k) ==
    [self EXCEPT !.binning.v[1] = PyInt(j), !.preprocessing_binning.v[1] = PyInt(k)]

(* C12: in every reachable state and for every class, nb_pixel_y is        *)
(* unbinned_pixel_number[0] // preprocessing_binning[1], nb_pixel_x is     *)
(* unbinned_pixel_number[1] // preprocessing_binning[2] (floor division),  *)
(* pixelsize_y is unbinned_pixel_size[0] * preprocessing_binning[1] *      *)
(* binning[1] and pixelsize_x is unbinned_pixel_size[1] *                  *)
(* preprocessing_binning[2] * binning[2]; index 0 of either binning does   *)
(* not affect them.                                                        *)
C12_DerivedQuantities ==
    det # NoDet =>
        LET n == unbinned_pixel_number(det)
            sz == unbinned_pixel_size(det)
            pb == det.preprocessing_binning.v
            b == det.binning.v
        IN /\ nb_pixel_y(det) = n[1] \div pb[2].v
           /\ nb_pixel_y(det) * pb[2].v <= n[1]
           /\ n[1] < (nb_pixel_y(det) + 1) * pb[2].v
           /\ nb_pixel_x(det) = n[2] \div pb[3].v
           /\ nb_pixel_x(det) * pb[3].v <= n[2]
           /\ n[2] < (nb_pixel_x(det) + 1) * pb[3].v
           /\ pixelsize_y(det) = sz[1] * pb[2].v * b[2].v
           /\ pixelsize_x(det) = sz[2] * pb[3].v * b[3].v
           /\ \A j, k \in 1..3 :
                /\ nb_pixel_y(Restacked(det, j, k)) = nb_pixel_y(det)
                /\ nb_pixel_x(Restacked(det, j, k)) = nb_pixel_x(det)
                /\ pixelsize_y(Restacked(det, j, k)) = pixelsize_y(det)
                /\ pixelsize_x(Restacked(det, j, k)) = pixelsize_x(det)

\* Merlin (515 x 515, 55e-06 m) with preprocessing_binning (1, 2, 2) and
\* binning [2, 1, 3] assigned afterwards: 515 // 2 = 257 pixels
C12_Witness ==
    /\ det # NoDet /\ det.cls = "Merlin"
    /\ det.preprocessing_binning = PyTuple(Triple(1, 2, 2))
    /\ det.binning = PyList(Triple(2, 1, 3))
    /\ nb_pixel_y(det) = 257 /\ nb_pixel_x(det) = 257
    /\ pixelsize_y(det) = 110 /\ pixelsize_x(det) = 330

\* None, or an empty list or tuple
EmptyBox(v) == v \in {None, PyList(<< >>), PyTuple(<< >>)}

\* [0, nb_pixel_y, 0, nb_pixel_x] of an instance
FullFrame(self) ==
    PyList(<<PyInt(0), PyInt(nb_pixel_y(self)), PyInt(0), PyInt(nb_pixel_x(self))>>)

(* C13: assigning None or an empty list/tuple to roi, or omitting roi at   *)
(* construction, stores [0, nb_pixel_y, 0, nb_pixel_x]; the constructor    *)
(* applies preprocessing_binning before roi, so the default roi is the     *)
(* frame after preprocessing binning: Maxipix with preprocessing_binning   *)
(* (1, 2, 2) gets roi [0, 258, 0, 258].                                    *)
C13_DefaultRoi ==
    /\ (pc = "done" /\ ret.op = "assign" /\ ret.field = "roi" /\ EmptyBox(ret.value)) =>
          /\ ret.err = "none"
          /\ det.roi = FullFrame(ret.before)
          /\ det.roi = FullFrame(det)
    /\ (Constructed /\ EmptyBox(ret.kw.roi)) =>
          /\ ret.kw = [DefaultKw EXCEPT !.roi = ret.kw.roi] => ret.err = "none"
          /\ ret.err = "none" => det.roi = FullFrame(det)
          /\ (ret.name = "Maxipix"
                 /\ ret.kw.preprocessing_binning = PyTuple(Triple(1, 2, 2))) =>
               (ret.err = "none" /\ det.roi = PyList(Box(0, 258, 0, 258)))

C13_Witness ==
    /\ Constructed /\ ret.name = "Maxipix" /\ ret.kw.roi = None
    /\ ret.kw.preprocessing_binning = PyTuple(Triple(1, 2, 2))
    /\ det.roi = PyList(Box(0, 258, 0, 258))

(* C14: assigning None or an empty list/tuple to sum_roi stores the        *)
(* current roi when roi is set and [0, nb_pixel_y, 0, nb_pixel_x]          *)
(* otherwise; roi is assigned before sum_roi in the constructor and is     *)
(* never empty afterwards, so a sum_roi omitted at construction equals     *)
(* roi, whether roi was given or defaulted.                                *)
C14_DefaultSumRoi ==
    /\ det # NoDet => ~Falsy(det.roi)
    /\ (pc = "done" /\ ret.op = "assign" /\ ret.field = "sum_roi"
            /\ EmptyBox(ret.value)) =>
          /\ ret.err = "none"
          /\ det.sum_roi = (IF Falsy(ret.before.roi)
                            THEN FullFrame(ret.before) ELSE ret.before.roi)
          /\ det.roi = ret.before.roi
    /\ (Constructed /\ EmptyBox(ret.kw.sum_roi)) =>
          /\ ret.kw = [DefaultKw EXCEPT !.sum_roi = ret.kw.sum_roi] => ret.err = "none"
          /\ ret.err = "none" => det.sum_roi = det.roi

\* roi given as [0, 10, 0, 20] and sum_roi omitted: sum_roi is that box, not
\* the full frame
C14_Witness ==
    /\ Constructed /\ ret.err = "none"
    /\ ret.kw.roi = PyList(Box(0, 10, 0, 20)) /\ ret.kw.sum_roi = None
    /\ det.sum_roi = PyList(Box(0, 10, 0, 20))
    /\ det.sum_roi # FullFrame(det)

\* a frame of a few counts and its all-zero mask, as a caller would pass them
C15_Frame == Arr(CropShape, "int", [p \in {RefPixel} |-> FromInt(5)])
C15_Mask == Arr(CropShape, "int", [p \in {RefPixel} |-> 0])

(* C15: constructing any detector with a linearity_func that is neither    *)
(* None nor callable fails at construction (TypeError), no instance is     *)
(* returned and no instance ever holds such a value; None is accepted and  *)
(* means mask_detector skips the linearity step.                           *)
C15_LinearityFuncChecked ==
    /\ Constructed =>
          /\ (ret.kw.linearity_func # None /\ ret.kw.linearity_func.t # "function") =>
               (ret.err = "TypeError" /\ det = NoDet)
          /\ ret.kw = [DefaultKw EXCEPT !.linearity_func = ret.kw.linearity_func]
                 /\ (ret.kw.linearity_func = None \/ ret.kw.linearity_func.t = "function") =>
               (ret.err = "none" /\ det.linearity_func = ret.kw.linearity_func)
    /\ det # NoDet =>
          /\ det.linearity_func = None \/ det.linearity_func.t = "function"
          /\ det.linearity_func = None =>
               LET s == mask_detector(det, C15_Frame, C15_Mask, PyInt(1), None, None, None)
               IN s.lin_arg = None /\ s.lin.data = s.entry.data

C15_Witness ==
    /\ Constructed /\ ret.name = "Merlin" /\ ret.kw.linearity_func = PyInt(3)
    /\ ret.err = "TypeError" /\ det = NoDet

\* _mask_gaps applied once more to the arrays the gap step left
GapsAgain == mask_gaps(det.cls, steps.gaps.data, steps.gaps.mask)

(* C16: gap masking is idempotent for every class: _mask_gaps applied to   *)
(* the data and mask that _mask_gaps returned gives the same data and the  *)
(* same mask (and where the first application raised, the second raises    *)
(* on the same arrays without changing them).                              *)
C16_GapsIdempotent ==
    (Called /\ steps.hot.err = "none") =>
        /\ GapsAgain.err = steps.gaps.err
        /\ GapsAgain.data = steps.gaps.data
        /\ GapsAgain.mask = steps.gaps.mask

\* a gap pixel that held counts and was not masked: the first application
\* changed both arrays, the second changes nothing
C16_Witness ==
    /\ Called /\ steps.hot.err = "none" /\ steps.gaps.err = "none"
    /\ GapStmts(det.cls) # << >>
    /\ \E p \in Pixels(steps.gaps.data) :
         /\ steps.hot.data.val[p] # Zero /\ steps.hot.mask.val[p] = 0
         /\ steps.gaps.data.val[p] = Zero /\ steps.gaps.mask.val[p] = 1
    /\ GapsAgain.data = steps.gaps.data /\ GapsAgain.mask = steps.gaps.mask

\* the call passes neither flatfield nor background nor hot-pixel map
NoCorrection ==
    args.flatfield = None /\ args.background = None /\ args.hotpixels = None

(* C17: Timepix and Dummy have no gaps and no saturation threshold: with   *)
(* no linearity function, flatfield, background or hotpixels, their        *)
(* mask_detector returns data and mask equal to its inputs, for every      *)
(* frame (of the shape of mask) and every pixel value.                     *)
C17_Passthrough ==
    (/\ Called
     /\ det.cls \in {"Timepix", "Dummy"}
     /\ det.linearity_func = None
     /\ NoCorrection
     /\ steps.entry.data.shape = steps.entry.mask.shape) =>
        /\ GapStmts(det.cls) = << >>
        /\ det.saturation_threshold = None
        /\ ret.err = "none"
        /\ ret.data = steps.entry.data
        /\ ret.mask = steps.entry.mask
        /\ data = steps.entry.data
        /\ mask = steps.entry.mask

\* a Timepix frame with a pixel above 1e6 * nb_frames comes back as passed
C17_Witness ==
    /\ Called /\ det.cls = "Timepix" /\ det.linearity_func = None /\ NoCorrection
    /\ args.nb_frames = PyInt(1)
    /\ \E p \in Pixels(steps.entry.data) :
         Gt(steps.entry.data.val[p], Val(1, 0)) /\ ret.data.val[p] = steps.entry.data.val[p]
    /\ ret.mask = steps.entry.mask

\* the call of C18: a 516 x 516 frame, zero but for 5 counts at (100, 100),
\* an all-zero mask, a hot-pixel map marking (100, 100) alone, nb_frames 1
\* and no other correction
HotSpotScenario ==
    /\ Called /\ det.cls = "Maxipix" /\ det.linearity_func = None
    /\ steps.entry.data.shape = <<516, 516>>
    /\ steps.entry.mask.shape = <<516, 516>>
    /\ args.nb_frames = PyInt(1)
    /\ args.flatfield = None /\ args.background = None
    /\ args.hotpixels # None /\ args.hotpixels.shape = <<516, 516>>
    /\ \A p \in Pixels(steps.entry.data) :
         /\ steps.entry.data.val[p] = (IF p = <<100, 100>> THEN FromInt(5) ELSE Zero)
         /\ steps.entry.mask.val[p] = 0
         /\ args.hotpixels.val[p] = (IF p = <<100, 100>> THEN 1 ELSE 0)

(* C18: on Maxipix, for a 516 x 516 frame that is zero except              *)
(* data[100,100] = 5, an all-zero mask, hotpixels 1 only at (100,100),     *)
(* nb_frames = 1 and no other correction, mask_detector returns data 0     *)
(* everywhere and a mask that is 1 exactly at (100,100) and on rows 255 to *)
(* 260 and columns 255 to 260, and 0 at every other pixel.                 *)
C18_MaxipixEndToEnd ==
    HotSpotScenario =>
        /\ ret.err = "none"
        /\ \A p \in Pixels(ret.data) :
             /\ ret.data.val[p] = Zero
             /\ ret.mask.val[p] =
                  (IF p = <<100, 100>> \/ p[1] \in 255..260 \/ p[2] \in 255..260
                   THEN 1 ELSE 0)

\* the pixel followed beside (100, 100) is the first one below the row band
C18_Witness ==
    /\ HotSpotScenario /\ ret.err = "none"
    /\ <<261, 254>> \in Pixels(ret.data)
    /\ ret.mask.val[<<261, 254>>] = 0
    /\ ret.data.val[<<100, 100>>] = Zero /\ ret.mask.val[<<100, 100>>] = 1

\* pixel p lies on row 0, the last row, column 0 or the last column
OnBorder(p, shape) ==
    p[1] \in {0, shape[1] - 1} \/ p[2] \in {0, shape[2] - 1}

\* the call of C19: a full Eiger4M frame, nb_frames 1 and no correction array
BorderScenario ==
    /\ Called /\ det.cls = "Eiger4M" /\ det.linearity_func = None
    /\ steps.entry.data.shape = <<2167, 2070>>
    /\ steps.entry.mask.shape = <<2167, 2070>>
    /\ args.nb_frames = PyInt(1)
    /\ NoCorrection

(* C19: on Eiger4M, for a full frame (2167 x 2070) whose border pixels     *)
(* hold values above 4e9, with nb_frames = 1, after mask_detector every    *)
(* pixel of row 0, the last row, column 0 and the last column is 0 in data *)
(* and 1 in mask.                                                          *)
C19_Eiger4MBorders ==
    BorderScenario =>
        /\ ret.err = "none"
        /\ \A p \in Pixels(steps.entry.data) :
             (OnBorder(p, <<2167, 2070>>)
                 /\ Gt(steps.entry.data.val[p], Val(4000, 0))) =>
               (ret.data.val[p] = Zero /\ ret.mask.val[p] = 1)

\* the corner of the last row and last column, above 4e9 and not yet masked
C19_Witness ==
    /\ BorderScenario /\ ret.err = "none"
    /\ <<2166, 2069>> \in Pixels(steps.entry.data)
    /\ Gt(steps.entry.data.val[<<2166, 2069>>], Val(4000, 0))
    /\ steps.entry.mask.val[<<2166, 2069>>] = 0
    /\ ret.data.val[<<2166, 2069>>] = Zero
    /\ ret.mask.val[<<2166, 2069>>] = 1

\* a pair of positive integers, and a positive number
IsPixelNumber(n) ==
    /\ n.t \in {"tuple", "list"}
    /\ Len(n.v) = 2
    /\ \A i \in 1..2 : n.v[i].t = "int" /\ n.v[i].v > 0
IsPixelSize(z) == z.t \in {"int", "float"} /\ z.v > 0

\* what C20 says a Dummy built with these arguments reports
C20_Number(kw) ==
    IF kw.custom_pixelnumber = None THEN <<516, 516>>
    ELSE <<kw.custom_pixelnumber.v[1].v, kw.custom_pixelnumber.v[2].v>>
C20_Size(kw) ==
    IF kw.custom_pixelsize = None THEN <<55, 55>>
    ELSE <<kw.custom_pixelsize.v, kw.custom_pixelsize.v>>

(* C20: a Dummy constructed without custom_pixelnumber and                 *)
(* custom_pixelsize reports unbinned_pixel_number (516, 516) and           *)
(* unbinned_pixel_size (55e-6, 55e-6); with the overrides (a pair of       *)
(* positive integers, a positive number) it reports custom_pixelnumber and *)
(* (custom_pixelsize, custom_pixelsize), and nb_pixel_x/y and the default  *)
(* roi are derived from the override; an invalid override is rejected at   *)
(* construction.                                                           *)
C20_DummyOverrides ==
    (Constructed /\ ret.name = "Dummy") =>
        LET n == ret.kw.custom_pixelnumber
            z == ret.kw.custom_pixelsize
            valid == (n = None \/ IsPixelNumber(n)) /\ (z = None \/ IsPixelSize(z))
            plain == ret.kw = [DefaultKw EXCEPT !.custom_pixelnumber = n,
                                                !.custom_pixelsize = z]
        IN /\ ~valid => (ret.err = "ValidationError" /\ det = NoDet)
           /\ (valid /\ plain) => ret.err = "none"
           /\ ret.err = "none" =>
                LET pb == det.preprocessing_binning.v
                IN /\ det.cls = "Dummy"
                   /\ unbinned_pixel_number(det) = C20_Number(ret.kw)
                   /\ unbinned_pixel_size(det) = C20_Size(ret.kw)
                   /\ nb_pixel_y(det) = C20_Number(ret.kw)[1] \div pb[2].v
                   /\ nb_pixel_x(det) = C20_Number(ret.kw)[2] \div pb[3].v
                   /\ EmptyBox(ret.kw.roi) =>
                        det.roi = PyList(Box(0, C20_Number(ret.kw)[1] \div pb[2].v,
                                             0, C20_Number(ret.kw)[2] \div pb[3].v))

\* both overrides and a preprocessing binning: 128 x 300 pixels of 75e-06 m,
\* default roi [0, 64, 0, 150]
C20_Witness ==
    /\ Constructed /\ ret.name = "Dummy" /\ ret.err = "none"
    /\ ret.kw.custom_pixelnumber = PyTuple(<<PyInt(128), PyInt(300)>>)
    /\ ret.kw.custom_pixelsize = PyFloat(75)
    /\ ret.kw.preprocessing_binning = PyTuple(Triple(1, 2, 2))
    /\ unbinned_pixel_number(det) = <<128, 300>>
    /\ unbinned_pixel_size(det) = <<75, 75>>
    /\ det.roi = PyList(Box(0, 64, 0, 150))

\* the classes that set a saturation threshold
ThresholdClasses == {"Maxipix", "Eiger2M", "Eiger4M", "Merlin"}

\* the saturation step of the call rejected nb_frames after the earlier
\* steps had passed
FramesRejected ==
    /\ Called /\ det.cls \in ThresholdClasses
    /\ ~PositiveInt(args.nb_frames)
    /\ steps.gaps.err = "none"

(* C21: mask_detector does not roll back: on a class with a saturation     *)
(* threshold, when the saturation step rejects nb_frames the call fails,   *)
(* and what the hot-pixel and gap steps of the same call wrote stays in    *)
(* the caller's mask array, and in the caller's data array when no         *)
(* linearity function, flatfield or background gave data a new array       *)
(* (otherwise the caller's data array is as it was passed).                *)
C21_NoRollback ==
    FramesRejected =>
        /\ ret.err = "ValidationError"
        /\ mask = steps.gaps.mask
        /\ \A p \in Pixels(mask) :
             ((args.hotpixels # None /\ args.hotpixels.val[p] = 1)
                 \/ GapRegion(det.cls, mask.shape, p)) => mask.val[p] = 1
        /\ IF det.linearity_func = None /\ args.flatfield = None
                /\ args.background = None
           THEN data = steps.gaps.data
           ELSE data = steps.entry.data

\* a hot pixel that held counts and was not masked: after the failed call
\* the caller's arrays hold 0 and 1 there
C21_Witness ==
    /\ FramesRejected /\ ret.err = "ValidationError"
    /\ args.hotpixels # None
    /\ args.hotpixels.val[RefPixel] = 1
    /\ ~GapRegion(det.cls, mask.shape, RefPixel)
    /\ steps.entry.data.val[RefPixel] # Zero /\ steps.entry.mask.val[RefPixel] = 0
    /\ data.val[RefPixel] = Zero /\ mask.val[RefPixel] = 1

\* the call has data and mask of one shape, a positive integer nb_frames and
\* optional arrays that are absent or valid (shape of data, 0/1 hot pixels)
ValidCall ==
    /\ Called
    /\ steps.entry.data.shape = steps.entry.mask.shape
    /\ PositiveInt(args.nb_frames)
    /\ args.flatfield # None => args.flatfield.shape = steps.entry.data.shape
    /\ args.background # None => args.background.shape = steps.entry.data.shape
    /\ args.hotpixels # None =>
         /\ args.hotpixels.shape = steps.entry.data.shape
         /\ \A p \in Pixels(args.hotpixels) : args.hotpixels.val[p] \in {0, 1}

(* C22: mask_detector succeeds for a frame of any size: for every class    *)
(* and every data/mask pair of equal shape, frames smaller than the full   *)
(* detector included, with valid optional inputs and nb_frames, gap ranges *)
(* outside the frame are ignored and the call returns normally, without an *)
(* index error and without a partial update.                               *)
C22_AnyFrameSize ==
    ValidCall =>
        /\ ret.err = "none"
        /\ steps.gaps.err = "none"

(* C23: assigning binning or preprocessing_binning leaves roi and sum_roi  *)
(* unchanged: a roi defaulted from the pixel counts keeps the value        *)
(* computed at its own assignment and is not recomputed when               *)
(* preprocessing_binning changes, so roi may differ from                   *)
(* [0, nb_pixel_y, 0, nb_pixel_x] afterwards.                              *)
C23_RoiNotRecomputed ==
    (pc = "done" /\ ret.op = "assign"
        /\ ret.field \in {"binning", "preprocessing_binning"}) =>
        /\ det.roi = ret.before.roi
        /\ det.sum_roi = ret.before.sum_roi
        /\ (ret.err = "none" /\ ret.field = "preprocessing_binning"
               /\ ret.before.roi = FullFrame(ret.before)
               /\ nb_pixel_y(det) # nb_pixel_y(ret.before)) =>
             det.roi # FullFrame(det)

\* Maxipix built with the default roi [0, 516, 0, 516], then
\* preprocessing_binning = (1, 2, 2): the frame is 258 x 258, roi is as it was
C23_Witness ==
    /\ pc = "done" /\ ret.op = "assign" /\ ret.err = "none"
    /\ ret.field = "preprocessing_binning" /\ ret.value = PyTuple(Triple(1, 2, 2))
    /\ det.cls = "Maxipix"
    /\ det.preprocessing_binning = PyTuple(Triple(1, 2, 2))
    /\ det.roi = PyList(Box(0, 516, 0, 516))
    /\ det.sum_roi = PyList(Box(0, 516, 0, 516))
    /\ FullFrame(det) = PyList(Box(0, 258, 0, 258))

\* the fields whose setter validates
ValidatedFields ==
    {"binning", "preprocessing_binning", "roi", "sum_roi", "rootdir", "datadir",
     "savedir", "sample_name", "template_file", "template_imagefile"}

(* C24: a rejected assignment changes nothing: when an assignment to       *)
(* binning, preprocessing_binning, roi, sum_roi, rootdir, datadir,         *)
(* savedir, sample_name, template_file or template_imagefile fails         *)
(* validation, the error is raised at the assignment and that field and    *)
(* every other field keep their values; nothing invalid is stored for      *)
(* later (an accepted value passes its setter again).                      *)
C24_RejectedAssignment ==
    (pc = "done" /\ ret.op = "assign" /\ ret.field \in ValidatedFields) =>
        /\ ret.err \in {"none", "ValidationError"}
        /\ ret.err # "none" => det = ret.before
        /\ ret.err = "none" =>
             /\ Assign(det, ret.field, det[ret.field]).err = "none"
             /\ \A f \in Fields \ {ret.field} : det[f] = ret.before[f]

\* roi = [0, 10, 0] on an instance built with roi [0, 10, 0, 20]
C24_Witness ==
    /\ pc = "done" /\ ret.op = "assign" /\ ret.field = "roi"
    /\ ret.value = PyList(Triple(0, 10, 0))
    /\ ret.err = "ValidationError"
    /\ ret.before.roi = PyList(Box(0, 10, 0, 20))
    /\ det = ret.before

(* C25: the running mask is monotone: over any sequence of mask_detector   *)
(* calls (any class, any inputs, successful or failing), a mask entry      *)
(* equal to 1 is never changed, and the only change ever made to a mask    *)
(* entry is setting it to 1.                                               *)
C25_MaskMonotone ==
    [][(mask # NoArr /\ mask' # NoArr) =>
          /\ mask'.shape = mask.shape
          /\ \A p \in DOMAIN mask.val :
               /\ mask.val[p] = 1 => mask'.val[p] = 1
               /\ mask'.val[p] # mask.val[p] => mask'.val[p] = 1]_vars

\* a call on a running mask that already held a 1: that entry is kept and
\* another entry goes from 0 to 1
C25_Witness ==
    /\ Called
    /\ \E p, q \in Pixels(mask) :
         /\ steps.entry.mask.val[p] = 1 /\ mask.val[p] = 1
         /\ steps.entry.mask.val[q] = 0 /\ mask.val[q] = 1

====
